---- MODULE Spec2Model ----
(***************************************************************************)
(* Preferred Stock Floating Rate Tracker (src/app.py).                     *)
(*                                                                         *)
(* Numbers.  Python floats are modelled as exact fixed-point quantities:   *)
(*   rates            in 1e-6 (0.093012 is 93012; "9.3012%" is 93012)      *)
(*   Market Price     in cents                                             *)
(*   Accrued Interest in 1e-4 dollars (round(accrued, 4))                  *)
(*   Clean Price      in 1e-3 dollars (round(clean_price, 3))              *)
(*   yields           in 1e-3 percent ("%.3f%%" of yoc*100)                *)
(*   dates            as day numbers, day 0 = date(2025, 10, 31)           *)
(* The unrounded intermediate values are kept as exact rationals over a    *)
(* fixed denominator.  An optional value (None / absent) is a sequence of  *)
(* length 0 or 1.                                                          *)
(***************************************************************************)
EXTENDS Integers, Sequences, FiniteSets, TLC

VARIABLES
    feed,        \* the price/dividend provider (yfinance), what it answers now
    cache,       \* st.cache_data entry of fetch_live_data: <<>> or <<df>>
    session_df,  \* st.session_state.df: <<>> ('df' not in session_state) or <<df>>
    sofr_val,    \* value of the "3M Term SOFR (%)" widget, in 1e-4 percent
    today,       \* the day datetime.now() falls in
    as_of,       \* the day the last script run read from datetime.now()
    display_df,  \* table the last script run passed to st.data_editor, <<>> if none
    sens_df,     \* sensitivity table the last script run rendered, <<>> if none
    raised,      \* the last script run ended in an uncaught exception
    rerun,       \* which st.rerun() is pending: "none", "refresh" or "edit"
    edits,       \* number of edit syncs in this session
    main_editor, \* st.session_state["main_editor"]: the cell typed into the table, <<>> if none
    probe        \* a single calculate_metrics / projector call on drawn inputs

vars == <<feed, cache, session_df, sofr_val, today, as_of, display_df, sens_df,
          raised, rerun, edits, main_editor, probe>>

-----------------------------------------------------------------------------
(* Bounds *)

MaxEdits == 1

-----------------------------------------------------------------------------
(* 1. Setup & fixed metadata *)

TICKERS == <<"MFA-PC", "RITM-PA", "RITM-PB">>

Tickers == {TICKERS[i] : i \in 1..Len(TICKERS)}

ISDA_SPREAD == 2616

META ==
    [t \in Tickers |->
        CASE t = "MFA-PC"  -> [margin |-> 53450, prev_coupon |-> 6139, declared |-> <<>>]
          [] t = "RITM-PA" -> [margin |-> 58020, prev_coupon |-> 6565, declared |-> <<99150>>]
          [] t = "RITM-PB" -> [margin |-> 56400, prev_coupon |-> 6461, declared |-> <<97530>>]]

\* st.number_input("3M Term SOFR (%)", value=3.6946, format="%.4f")
DefaultSofr == 36946

\* price = ... if not hist.empty else 25.00, in 1e-4 dollars
FallbackPrice == 250000

\* last_ex = date(2025, 10, 31); next_ex = date(2026, 1, 30)
FallbackLastEx == 0

FallbackNextEx == 91

\* next_ex = divs.index[-1] + timedelta(days=91)
CyclePeriod == 91

\* @st.cache_data(ttl=300): seconds, shorter than one day
CacheTtl == 300

SecondsPerDay == 24 * 60 * 60

\* The sensitivity ladder, shifts in 1e-6
shifts == <<-7500, -5000, -2500, 0, 10000, 12500, 15000>>

shift_labels == <<"SOFR -75bps", "SOFR -50bps", "SOFR -25bps", "Current SOFR",
                  "SOFR +100bps", "SOFR +125bps", "SOFR +150bps">>

-----------------------------------------------------------------------------
(* Arithmetic helpers *)

Abs(x) == IF x < 0 THEN -x ELSE x

\* round(n/d) to the nearest integer, ties to the even one (Python's round and
\* "%.Nf" on the exact value), d > 0.
RoundDiv(n, d) ==
    LET q == n \div d
        r == n % d
    IN  IF 2 * r < d THEN q
        ELSE IF 2 * r > d THEN q + 1
        ELSE IF q % 2 = 0 THEN q ELSE q + 1

\* One step of decimal long division: <<floor(10 r / c), (10 r) mod c>>, for
\* 0 <= r < c, computed without leaving 32 bits.
Times10Div(r, c) ==
    LET q5 == (5 * r) \div c
        r5 == (5 * r) % c
    IN  <<2 * q5 + ((2 * r5) \div c), (2 * r5) % c>>

RECURSIVE LongDiv(_, _, _, _)
\* <<floor(q + r * 10^k / c) digits appended, remainder>>
LongDiv(q, r, c, k) ==
    IF k = 0 THEN <<q, r>>
    ELSE LET s == Times10Div(r, c)
         IN  LongDiv(10 * q + s[1], s[2], c, k - 1)

\* round(a * 10^k / c), ties to even, for a >= 0 and c > 0
ScaledRoundDiv(a, c, k) ==
    LET qr == LongDiv(a \div c, a % c, c, k)
        q  == qr[1]
        r  == qr[2]
    IN  IF 2 * r < c THEN q
        ELSE IF 2 * r > c THEN q + 1
        ELSE IF q % 2 = 0 THEN q ELSE q + 1

-----------------------------------------------------------------------------
(* Table cells that hold text *)

Empty == [kind |-> "empty", val |-> 0]

NA == [kind |-> "N/A", val |-> 0]

UserText == [kind |-> "typed", val |-> 0]

\* f"{x*100:.3f}%", val in 1e-3 percent
Pct3(v) == [kind |-> "pct3", val |-> v]

\* f"{x*100:.4f}%", val in 1e-4 percent
Pct4(v) == [kind |-> "pct4", val |-> v]

\* f"${x:.4f}", val in 1e-4 dollars
Usd4(v) == [kind |-> "usd4", val |-> v]

-----------------------------------------------------------------------------
(* 3. Data fetching *)

\* What the provider answers for one ticker: hist['Close'].iloc[-1] in 1e-4
\* dollars (<<>> when hist is empty) and divs.index[-1] (<<>> when divs is empty).
FeedQuotes ==
    { [t \in Tickers |-> [close |-> <<>>, div |-> <<>>]],
      [t \in Tickers |->
          CASE t = "MFA-PC"  -> [close |-> <<248049>>, div |-> <<0>>]
            [] t = "RITM-PA" -> [close |-> <<250000>>, div |-> <<0>>]
            [] t = "RITM-PB" -> [close |-> <<252551>>, div |-> <<14>>]] }

\* One element of `data` (lines 33-59)
FetchRow(t, q) ==
    LET price   == IF q.close # <<>> THEN q.close[1] ELSE FallbackPrice
        last_ex == IF q.div # <<>> THEN q.div[1] ELSE FallbackLastEx
        next_ex == IF q.div # <<>> THEN q.div[1] + CyclePeriod ELSE FallbackNextEx
    IN  [ Margin     |-> Pct3(RoundDiv(META[t].margin, 10)),
          LastEx     |-> <<last_ex>>,
          Price      |-> RoundDiv(price, 100),
          Accrued    |-> 0,
          Clean      |-> 0,
          Yield      |-> Empty,
          NextEx     |-> <<next_ex>>,
          NextPayout |-> Empty,
          CurCoupon  |-> Empty,
          ProjCoupon |-> Empty,
          PrevCoupon |-> Usd4(META[t].prev_coupon) ]

\* The body of fetch_live_data: a DataFrame of the provider's answers
FetchRows(f) == [t \in Tickers |-> FetchRow(t, f[t])]

\* fetch_live_data() through st.cache_data: <<returned df, cache afterwards>>
fetch_live_data(c, f) ==
    IF c # <<>> THEN <<c[1], c>> ELSE <<FetchRows(f), <<FetchRows(f)>>>>

-----------------------------------------------------------------------------
(* 4. Calculation engine (Actual/360) *)

\* Python truthiness of m['declared']: None and 0.0 are both false
Truthy(opt) == opt # <<>> /\ opt[1] # 0

\* line 71
CurrentRate(m, sofr) ==
    IF Truthy(m.declared) THEN m.declared[1] ELSE sofr + m.margin + ISDA_SPREAD

\* line 72
ProjectedRate(m, sofr) == sofr + m.margin + ISDA_SPREAD

\* Mutant: days_elapsed clamped at 0, max(0, (now - last_ex).days)
DaysElapsed_Clamped(last_ex, now) == IF now - last_ex < 0 THEN 0 ELSE now - last_ex

\* lines 75-77: (datetime.now() - midnight of last_ex).days, a floor
DaysElapsed(last_ex, now) == now - last_ex

\* Mutant: an Actual/365 day count, days / 365
AccruedNum_Act365(rate, days) == (rate * days * 360) \div 365

\* line 80, exact, in 1/1440 of 1e-4 dollars: 25 * rate * days / 360
AccruedNum(rate, days) == rate * days

\* line 81, exact, in 1/14400 of 1e-3 dollars
CleanNum(price, accruedNum) == price * 144000 - accruedNum

\* Mutant: the guard tests clean_price != 0 instead of clean_price > 0
YieldOnClean_NoGuard(rate, cleanNum) ==
    IF cleanNum # 0
    THEN (IF (rate < 0) # (cleanNum < 0) THEN -1 ELSE 1)
         * ScaledRoundDiv(360 * Abs(rate), Abs(cleanNum), 5)
    ELSE 0

\* line 83 with line 89's yoc*100 at three decimals: 25*rate / clean_price
YieldOnClean(rate, cleanNum) ==
    IF cleanNum > 0
    THEN (IF rate < 0 THEN -1 ELSE 1) * ScaledRoundDiv(360 * Abs(rate), cleanNum, 5)
    ELSE 0

\* datetime.combine(None, ...) raises TypeError (line 76)
RowRaises(row) == row.LastEx = <<>>

\* The local variables of one iteration of the loop (lines 66-83)
Metrics(row, m, sofr, now) ==
    LET current_rate == CurrentRate(m, sofr)
        days_elapsed == DaysElapsed(row.LastEx[1], now)
        accrued      == AccruedNum(current_rate, days_elapsed)
        clean_price  == CleanNum(row.Price, accrued)
    IN  [ current_rate   |-> current_rate,
          projected_rate |-> ProjectedRate(m, sofr),
          days_elapsed   |-> days_elapsed,
          accrued        |-> accrued,
          clean_price    |-> clean_price,
          yoc            |-> YieldOnClean(current_rate, clean_price) ]

\* Mutant: the accrued interest is added to the cell instead of written over it
ComputeRow_Accumulating(row, m, sofr, now) ==
    LET x == Metrics(row, m, sofr, now)
    IN  [row EXCEPT
            !.CurCoupon  = Pct4(x.current_rate),
            !.ProjCoupon = Pct4(x.projected_rate),
            !.Accrued    = @ + RoundDiv(x.accrued, 1440),
            !.Clean      = RoundDiv(x.clean_price, 14400),
            !.Yield      = Pct3(x.yoc),
            !.NextPayout = Usd4(RoundDiv(x.current_rate, 16))]

\* lines 85-90: the cells one iteration writes into calc_df
ComputeRow(row, m, sofr, now) ==
    LET x == Metrics(row, m, sofr, now)
    IN  [row EXCEPT
            !.CurCoupon  = Pct4(x.current_rate),
            !.ProjCoupon = Pct4(x.projected_rate),
            !.Accrued    = RoundDiv(x.accrued, 1440),
            !.Clean      = RoundDiv(x.clean_price, 14400),
            !.Yield      = Pct3(x.yoc),
            !.NextPayout = Usd4(RoundDiv(x.current_rate, 16))]

calculate_metrics(df, sofr, now) ==
    [t \in Tickers |-> ComputeRow(df[t], META[t], sofr, now)]

DfRaises(df) == \E t \in Tickers : RowRaises(df[t])

-----------------------------------------------------------------------------
(* Sensitivity table (lines 139-169) *)

\* lines 155-165 for one shift
ScenarioYield(m, sofr, shift, clean_p) ==
    LET scenario_coupon == (sofr + shift) + m.margin + ISDA_SPREAD
    IN  IF clean_p > 0
        THEN Pct3((IF scenario_coupon < 0 THEN -1 ELSE 1)
                  * RoundDiv(2500 * Abs(scenario_coupon), clean_p))
        ELSE NA

\* lines 145-167 for one ticker: its row of sens_df, one cell per shift label
ProjectRow(m, sofr, clean_p) ==
    [i \in 1..Len(shifts) |-> ScenarioYield(m, sofr, shifts[i], clean_p)]

Sensitivity(disp, sofr) ==
    [t \in Tickers |-> ProjectRow(META[t], sofr, disp[t].Clean)]

\* index of the "Current SOFR" column
CurrentSofrCol == CHOOSE i \in 1..Len(shift_labels) : shift_labels[i] = "Current SOFR"

-----------------------------------------------------------------------------
(* 5. The editable table (st.data_editor, lines 112-127) *)

Columns == {"Margin", "LastEx", "Price", "Accrued", "Clean", "Yield", "NextEx",
            "NextPayout", "CurCoupon", "ProjCoupon", "PrevCoupon"}

\* column_config entries with disabled=True (Ticker, the key, is one of them)
DisabledColumns == {"Accrued", "Clean", "Yield", "NextPayout"}

EditableColumns == Columns \ DisabledColumns

\* The values an operator types into a cell of column col on day now
EditValues(col, now) ==
    CASE col = "Price"  -> {-100, 2600}
      [] col = "LastEx" -> {<<>>, <<now + 1>>}
      [] col = "NextEx" -> {<<>>}
      [] OTHER          -> {UserText}

\* The columns the operator types into here.  Margin, Next Ex-Date and Prev
\* Coupon are editable too; nothing reads them back, and they are left as fetched.
EditedColumns == {"Price", "LastEx", "CurCoupon", "ProjCoupon"}

NoEdit == <<>>

\* edited_df: the table the widget returns, display_df with the typed cell
ApplyEdit(disp, e) ==
    IF e = NoEdit THEN disp
    ELSE [disp EXCEPT ![e[1].t] = [@ EXCEPT ![e[1].col] = e[1].v]]

-----------------------------------------------------------------------------
(* One run of the script, top to bottom *)

SofrInputs == {DefaultSofr, DefaultSofr + 5000}

\* The days the clock shows while the app is up
AsOfDays == {45, 46}

StartDay == CHOOSE d \in AsOfDays : \A e \in AsOfDays : d <= e

NoProbe == <<>>

\* Mutant: the refresh branch without st.cache_data.clear()
RefreshBranch_KeepCache ==
    /\ cache' = cache
    /\ session_df' = <<>>
    /\ rerun' = "refresh"
    /\ display_df' = <<>>
    /\ sens_df' = <<>>
    /\ raised' = FALSE
    /\ UNCHANGED <<as_of, edits>>

\* lines 94-97: the refresh branch
RefreshBranch ==
    /\ cache' = <<>>
    /\ session_df' = <<>>
    /\ rerun' = "refresh"
    /\ display_df' = <<>>
    /\ sens_df' = <<>>
    /\ raised' = FALSE
    /\ UNCHANGED <<as_of, edits>>

\* lines 99-179 with 'df' stored as sdf, the widget at sofr and the typed cell e
Body(sdf, sofr, e) ==
    LET got  == IF sdf = <<>> THEN fetch_live_data(cache, feed) ELSE <<sdf[1], cache>>
        df   == got[1]
        disp == calculate_metrics(df, sofr, today)
        edited_df == ApplyEdit(disp, e)
    IN  /\ cache' = got[2]
        /\ as_of' = today
        /\ IF DfRaises(df)
           THEN /\ session_df' = <<df>>
                /\ display_df' = <<>>
                /\ sens_df' = <<>>
                /\ raised' = TRUE
                /\ rerun' = "none"
                /\ UNCHANGED edits
           ELSE IF edited_df # disp
           THEN /\ session_df' = <<edited_df>>
                /\ display_df' = <<disp>>
                /\ sens_df' = <<>>
                /\ raised' = FALSE
                /\ rerun' = "edit"
                /\ edits' = edits + 1
           ELSE /\ session_df' = <<df>>
                /\ display_df' = <<disp>>
                /\ sens_df' = <<Sensitivity(disp, sofr)>>
                /\ raised' = FALSE
                /\ rerun' = "none"
                /\ UNCHANGED edits

\* A run with no widget changed: the page load, or the run st.rerun() queued
RunPlain ==
    /\ Body(session_df, sofr_val, NoEdit)
    /\ main_editor' = NoEdit
    /\ UNCHANGED <<feed, sofr_val, today, probe>>

\* The operator types a new reference rate
RunSofr(v) ==
    /\ rerun = "none"
    /\ v # sofr_val
    /\ sofr_val' = v
    /\ Body(session_df, v, NoEdit)
    /\ main_editor' = NoEdit
    /\ UNCHANGED <<feed, today, probe>>

\* The operator presses "Refresh Live Prices"
RunRefresh ==
    /\ rerun = "none"
    /\ RefreshBranch
    /\ main_editor' = NoEdit
    /\ UNCHANGED <<feed, sofr_val, today, probe>>

\* The operator types v into cell (t, col) of the table on screen
RunEdit(t, col, v) ==
    /\ rerun = "none"
    /\ display_df # <<>>
    /\ edits < MaxEdits
    /\ col \in EditableColumns
    /\ Body(session_df, sofr_val, <<[t |-> t, col |-> col, v |-> v]>>)
    /\ main_editor' = <<[t |-> t, col |-> col, v |-> v]>>
    /\ UNCHANGED <<feed, sofr_val, today, probe>>

\* A new browser session: empty session_state, widgets at their defaults, the
\* process-wide cache kept; the page load runs the script.
NewSession ==
    /\ sofr_val' = DefaultSofr
    /\ edits' = 0
    /\ LET got  == fetch_live_data(cache, feed)
           df   == got[1]
           disp == calculate_metrics(df, DefaultSofr, today)
       IN  /\ cache' = got[2]
           /\ as_of' = today
           /\ session_df' = <<df>>
           /\ display_df' = <<disp>>
           /\ sens_df' = <<Sensitivity(disp, DefaultSofr)>>
           /\ raised' = FALSE
           /\ rerun' = "none"
    /\ main_editor' = NoEdit
    /\ UNCHANGED <<feed, today, probe>>

-----------------------------------------------------------------------------
(* The environment *)

\* A day passes; a cache entry older than ttl seconds is dropped
Tick ==
    /\ today + 1 \in AsOfDays
    /\ today' = today + 1
    /\ cache' = IF SecondsPerDay > CacheTtl THEN <<>> ELSE cache
    /\ UNCHANGED <<feed, session_df, sofr_val, as_of, display_df, sens_df, raised,
                   rerun, edits, main_editor, probe>>

\* ttl seconds pass within a day
CacheExpire ==
    /\ cache # <<>>
    /\ cache' = <<>>
    /\ UNCHANGED <<feed, session_df, sofr_val, today, as_of, display_df, sens_df,
                   raised, rerun, edits, main_editor, probe>>

\* The provider's answers change
FeedUpdate(f) ==
    /\ f # feed
    /\ feed' = f
    /\ UNCHANGED <<cache, session_df, sofr_val, today, as_of, display_df, sens_df,
                   raised, rerun, edits, main_editor, probe>>

-----------------------------------------------------------------------------
Init ==
    /\ feed \in FeedQuotes
    /\ cache = <<>>
    /\ session_df = <<>>
    /\ sofr_val = DefaultSofr
    /\ today = StartDay
    /\ as_of = today
    /\ display_df = <<>>
    /\ sens_df = <<>>
    /\ raised = FALSE
    /\ rerun = "none"
    /\ edits = 0
    /\ main_editor = NoEdit
    /\ probe = NoProbe

Next ==
    \/ RunPlain
    \/ \E v \in SofrInputs : RunSofr(v)
    \/ RunRefresh
    \/ \E t \in Tickers, col \in EditedColumns : \E v \in EditValues(col, today) : RunEdit(t, col, v)
    \/ NewSession
    \/ Tick
    \/ CacheExpire
    \/ \E f \in FeedQuotes : FeedUpdate(f)

Spec == Init /\ [][Next]_vars

-----------------------------------------------------------------------------
(* One iteration of calculate_metrics' loop on its own.  A probe holds the     *)
(* registry entry m, the row, the reference rate and the clock it is given,  *)
(* and the row it wrote (out).                                               *)

\* Registry entries: those of META, and the same with a declared rate of 0.0
RegistryEntries ==
    {META[t] : t \in Tickers} \cup {[META[t] EXCEPT !.declared = <<0>>] : t \in Tickers}

ProbeRows == {FetchRow(t, f[t]) : t \in Tickers, f \in FeedQuotes}

ProbeInputs ==
    [m : RegistryEntries, row : ProbeRows, sofr : SofrInputs, now : AsOfDays, out : {<<>>}]

\* for i, row in calc_df.iterrows(): ... (lines 65-90) on the probe's inputs
ProbeCompute ==
    /\ probe # NoProbe
    /\ probe.out = <<>>
    /\ probe' = [probe EXCEPT !.out = <<ComputeRow(probe.row, probe.m, probe.sofr, probe.now)>>]
    /\ UNCHANGED <<feed, cache, session_df, sofr_val, today, as_of, display_df, sens_df,
                   raised, rerun, edits, main_editor>>

\* the same iteration over the row it has just written
ProbeRecompute ==
    /\ probe # NoProbe
    /\ probe.out # <<>>
    /\ probe' = [probe EXCEPT !.row = probe.out[1],
                              !.out = <<ComputeRow(probe.out[1], probe.m, probe.sofr, probe.now)>>]
    /\ UNCHANGED <<feed, cache, session_df, sofr_val, today, as_of, display_df, sens_df,
                   raised, rerun, edits, main_editor>>

InitCalc ==
    /\ feed \in FeedQuotes
    /\ cache = <<>>
    /\ session_df = <<>>
    /\ sofr_val = DefaultSofr
    /\ today = StartDay
    /\ as_of = today
    /\ display_df = <<>>
    /\ sens_df = <<>>
    /\ raised = FALSE
    /\ rerun = "none"
    /\ edits = 0
    /\ main_editor = NoEdit
    /\ probe \in ProbeInputs

NextCalc ==
    \/ ProbeCompute
    \/ ProbeRecompute

SpecCalc == InitCalc /\ [][NextCalc]_vars

-----------------------------------------------------------------------------
(* Properties *)

\* The unrounded values of the pass that produced the row shown for ticker t
Shown(t) == Metrics(display_df[1][t], META[t], sofr_val, as_of)

DerivedColumns == {"Accrued", "Clean", "Yield", "NextPayout", "CurCoupon", "ProjCoupon"}

\* C1: in every table the pass produces, each row's Clean Price equals its
\* Market Price minus its Accrued Interest exactly (compared in 1e-4 dollars).
C1_CleanIsPriceMinusAccrued ==
    display_df # <<>> =>
        \A t \in Tickers :
            display_df[1][t].Clean * 10
                = display_df[1][t].Price * 100 - display_df[1][t].Accrued

C3_ResetToLive ==
    /\ [](rerun = "refresh" =>
            /\ cache = <<>>
            /\ session_df = <<>>
            /\ display_df = <<>>
            /\ sens_df = <<>>
            /\ main_editor = NoEdit)
    /\ [][(rerun = "refresh" /\ rerun' # "refresh") =>
            /\ session_df' = <<FetchRows(feed)>>
            /\ display_df' = <<calculate_metrics(FetchRows(feed), sofr_val', today)>>
            /\ main_editor' = NoEdit]_vars

\* C3 witness: a session in which a cell was edited and stored now holds the
\* provider's current answers again.
C3_Witness ==
    /\ edits > 0
    /\ rerun = "none"
    /\ session_df = <<FetchRows(feed)>>
    /\ display_df # <<>>

\* Up to one unit of the last displayed digit
SameYield(a, b) == a.kind = "pct3" /\ b.kind = "pct3" /\ Abs(a.val - b.val) <= 1

\* C4: for every ticker the "Current SOFR" column of the sensitivity table shows
\* the Yield on Clean of the main table, up to display rounding.
C4_ShiftZeroMatchesMainTable ==
    (display_df # <<>> /\ sens_df # <<>>) =>
        \A t \in Tickers : SameYield(sens_df[1][t][CurrentSofrCol], display_df[1][t].Yield)

\* C5 as stated: a row whose clean price is <= 0 shows "N/A" as Yield on Clean.
C5_NonPositiveCleanShowsNA ==
    display_df # <<>> =>
        \A t \in Tickers : Shown(t).clean_price <= 0 => display_df[1][t].Yield = NA

\* C5, amended: a row whose clean price is <= 0 shows the numeric "0.000%" as
\* Yield on Clean (yoc is set to 0, the clean price is not divided by).
C5_NonPositiveCleanShowsZero ==
    display_df # <<>> =>
        \A t \in Tickers : Shown(t).clean_price <= 0 => display_df[1][t].Yield = Pct3(0)

\* C5 witness: a rendered row with a non-positive clean price
C5_Witness ==
    /\ display_df # <<>>
    /\ \E t \in Tickers : Shown(t).clean_price <= 0

\* C6: after an edit that types a non-positive Market Price, or clears the Last
\* Ex-Date to no date at all, the stored row still holds the price and last
\* ex-date it held before (those of the table shown), and no rerun is queued
\* for a stored edit.
C6_InvalidEditRejected ==
    (/\ main_editor # NoEdit
     /\ \/ main_editor[1].col = "Price" /\ main_editor[1].v <= 0
        \/ main_editor[1].col = "LastEx" /\ main_editor[1].v = <<>>) =>
        /\ rerun # "edit"
        /\ session_df[1][main_editor[1].t].Price = display_df[1][main_editor[1].t].Price
        /\ session_df[1][main_editor[1].t].LastEx = display_df[1][main_editor[1].t].LastEx

\* C7: an edit to a derived column is not stored, and every derived cell shown
\* is the one computed from the stored market rows, the registry and the rate.
C7_DerivedEditsRejected ==
    /\ (main_editor # NoEdit /\ main_editor[1].col \in DerivedColumns) =>
            /\ rerun # "edit"
            /\ session_df[1][main_editor[1].t][main_editor[1].col] # main_editor[1].v
    /\ (display_df # <<>> /\ rerun = "none") =>
            display_df[1] = calculate_metrics(session_df[1], sofr_val, as_of)

C9_Case(t) ==
    /\ display_df # <<>>
    /\ sofr_val = 36946
    /\ META[t].margin = 53450
    /\ META[t].declared = <<>>
    /\ display_df[1][t].Price = 2480
    /\ Shown(t).days_elapsed = 45

\* C9 as stated: ... clean price $24.5093 and yield on clean 9.486%.
C9_WorkedExampleAsStated ==
    \A t \in Tickers : C9_Case(t) =>
        /\ display_df[1][t].CurCoupon = Pct4(93012)
        /\ display_df[1][t].ProjCoupon = Pct4(93012)
        /\ display_df[1][t].Accrued = 2907
        /\ display_df[1][t].Clean * 10 = 245093
        /\ display_df[1][t].Yield = Pct3(9486)

\* C9, amended: for those inputs the pass writes current and projected coupon
\* 9.3012%, accrued interest 0.2907, clean price 24.509 and yield on clean 9.487%.
C9_WorkedExample ==
    \A t \in Tickers : C9_Case(t) =>
        /\ display_df[1][t].CurCoupon = Pct4(93012)
        /\ display_df[1][t].ProjCoupon = Pct4(93012)
        /\ display_df[1][t].Accrued = 2907
        /\ display_df[1][t].Clean = 24509
        /\ display_df[1][t].Yield = Pct3(9487)

\* C9 witness: the worked example's inputs are on screen
C9_Witness == \E t \in Tickers : C9_Case(t)

\* C10: a row whose last ex-date is later than the clock has days_elapsed equal
\* to the (negative) difference, a negative accrued interest and a clean price
\* above its market price, and a stored table with such a row is still rendered
\* whole, without an exception.
C10_FutureExDate ==
    /\ display_df # <<>> =>
            \A t \in Tickers :
                (display_df[1][t].LastEx[1] > as_of /\ Shown(t).current_rate > 0) =>
                    /\ Shown(t).days_elapsed = as_of - display_df[1][t].LastEx[1]
                    /\ Shown(t).days_elapsed < 0
                    /\ display_df[1][t].Accrued < 0
                    /\ display_df[1][t].Clean > display_df[1][t].Price * 10
    /\ (rerun = "none" /\ session_df # <<>> /\ ~DfRaises(session_df[1])) =>
            /\ ~raised
            /\ display_df # <<>>
            /\ sens_df # <<>>

\* C10 witness: a rendered table with a future last ex-date
C10_Witness ==
    /\ rerun = "none"
    /\ ~raised
    /\ display_df # <<>>
    /\ \E t \in Tickers : display_df[1][t].LastEx[1] > as_of

====
